---- MODULE Spec2Model ----
(***************************************************************************)
(* The borsh codec of IndexMap and IndexSet (src/src/borsh.rs).            *)
(*                                                                         *)
(* The codec keeps no state of its own: a call works on the container, the *)
(* writer or the reader it is handed.  The state below is therefore that   *)
(* of one scenario of calls: the key and value types, the container handed *)
(* to serialize, the writer it wrote to, the reader a deserialize read     *)
(* from, the result of the last call and the container it returned.        *)
(*                                                                         *)
(* Bytes are numbers 0..255.  A key or value of a 4-byte type is a number  *)
(* and is written as its little-endian bytes; the only value of a          *)
(* zero-size type is written as no byte at all.  A usize (vec.len()) is    *)
(* kept as its 8 little-endian base-256 digits, so that lengths beyond the *)
(* u32 range can be stated.                                                *)
(***************************************************************************)
EXTENDS Integers, Sequences, FiniteSets, TLC

VARIABLES
    vecGuard,   \* whether the Vec<T>::deserialize_reader a deserialize reaches refuses a zero-size T itself
    op,         \* the last call
    szK,        \* size_of::<K>() (size_of::<T>() for a set) of the scenario
    szV,        \* size_of::<V>() of the scenario (0 for a set)
    self,       \* the container handed to serialize, in enumeration order
    card,       \* vec.len() of the last serialize, as a usize
    writer,     \* the writer of the last serialize
    reader,     \* the reader of the last deserialize
    res,        \* the Result of the last call: [ok, err]
    out,        \* the container the last successful deserialize returned
    link,       \* the reader's stream is what serialize wrote for self
    bulk        \* entry records written for a container whose entries are not listed (usize)

vars == <<vecGuard, op, szK, szV, self, card, writer, reader, res, out, link, bulk>>

----------------------------------------------------------------------------
(* Bounds of the model *)

MaxLen == 3      \* longest insertion history of a container handed to serialize
MaxRecs == 3     \* most entry records in a stream handed to deserialize

MaxWrites == 2 * MaxLen + 1   \* write_all calls of the longest serialize

KeySizes == {0, 4}
ValSizes == {0, 4}

Keys(sz) == IF sz = 0 THEN {0} ELSE {1, 2, 256}
Vals(sz) == IF sz = 0 THEN {0} ELSE {7, 513}

BoundedSeq(S, n) == UNION {[1..m -> S] : m \in 0..n}

----------------------------------------------------------------------------
(* Errors and results *)

NoErr == [kind |-> "", msg |-> ""]
ErrZst == [kind |-> "InvalidData", msg |-> "ERROR_ZST_FORBIDDEN"]
ErrInvalidData == [kind |-> "InvalidData", msg |-> ""]
ErrEof == [kind |-> "InvalidData", msg |-> "ERROR_UNEXPECTED_LENGTH_OF_INPUT"]
WriteErrs == {[kind |-> "WriteZero", msg |-> "sink full"],
              [kind |-> "Other", msg |-> "sink closed"]}

Ok == [ok |-> TRUE, err |-> NoErr]
Err(e) == [ok |-> FALSE, err |-> e]

\* check_zst::<T>()
check_zst(size) == IF size = 0 THEN Err(ErrZst) ELSE Ok

----------------------------------------------------------------------------
(* Integers on the wire *)

RECURSIVE to_le_bytes(_, _)
to_le_bytes(n, size) ==
    IF size = 0 THEN <<>> ELSE <<n % 256>> \o to_le_bytes(n \div 256, size - 1)

RECURSIVE from_le_bytes(_)
from_le_bytes(b) ==
    IF b = <<>> THEN 0 ELSE Head(b) + 256 * from_le_bytes(Tail(b))

\* vec.len(): a usize
usize_of(n) == to_le_bytes(n, 8)

\* a cast (vec.len() as u32) in place of the checked conversion
u32_try_from_truncating(len) == [ok |-> TRUE, val |-> SubSeq(len, 1, 4)]

\* u32::try_from(usize): fails when the value needs more than 32 bits
u32_try_from(len) ==
    IF \A i \in 5..8 : len[i] = 0
    THEN [ok |-> TRUE, val |-> SubSeq(len, 1, 4)]
    ELSE [ok |-> FALSE, val |-> <<>>]

----------------------------------------------------------------------------
(* The writer: write_all call number failAt fails with err and writes      *)
(* nothing; failAt = 0 is a writer that never fails.                       *)

NewWriter(failAt, e) == [buf |-> <<>>, calls |-> 0, failAt |-> failAt, err |-> e]

write_all(w, bytes) ==
    IF w.calls + 1 = w.failAt
    THEN [ok |-> FALSE, err |-> w.err, w |-> [w EXCEPT !.calls = @ + 1]]
    ELSE [ok |-> TRUE, err |-> NoErr,
          w |-> [w EXCEPT !.calls = @ + 1, !.buf = @ \o bytes]]

\* <u32 as BorshSerialize>::serialize of the count, given as its 4 digits
u32_serialize(val, w) == write_all(w, val)

\* the field codec of K, V or T: a zero-size value writes nothing
field_serialize(x, size, w) ==
    IF size = 0 THEN [ok |-> TRUE, err |-> NoErr, w |-> w]
    ELSE write_all(w, to_le_bytes(x, size))

----------------------------------------------------------------------------
(* The reader.  A read_exact that fails is taken to consume nothing; no     *)
(* property below depends on where a failed read leaves the reader.        *)

NewReader(bytes) == [buf |-> bytes, pos |-> 0, reads |-> 0]

read_exact(r, n) ==
    IF r.pos + n <= Len(r.buf)
    THEN [ok |-> TRUE, err |-> NoErr,
          val |-> SubSeq(r.buf, r.pos + 1, r.pos + n),
          r |-> [r EXCEPT !.pos = @ + n, !.reads = @ + 1]]
    ELSE [ok |-> FALSE, err |-> ErrEof, val |-> <<>>,
          r |-> [r EXCEPT !.reads = @ + 1]]

\* the field codec of K, V, T or the u32 count: a zero-size value reads nothing
field_deserialize(size, r) ==
    IF size = 0 THEN [ok |-> TRUE, err |-> NoErr, val |-> 0, r |-> r]
    ELSE LET b == read_exact(r, size)
         IN  [ok |-> b.ok, err |-> b.err, val |-> from_le_bytes(b.val), r |-> b.r]

----------------------------------------------------------------------------
(* The containers: sequences in enumeration order *)

HasKey(m, k) == \E i \in 1..Len(m) : m[i][1] = k

\* IndexMap::insert: a present key keeps its place and takes the new value
map_insert(m, k, v) ==
    IF HasKey(m, k)
    THEN [i \in 1..Len(m) |-> IF m[i][1] = k THEN <<k, v>> ELSE m[i]]
    ELSE Append(m, <<k, v>>)

\* IndexSet::insert: a present element is left where it is
set_insert(s, t) ==
    IF \E i \in 1..Len(s) : s[i] = t THEN s ELSE Append(s, t)

\* vec.into_iter().collect::<IndexMap<K, V, H>>()
RECURSIVE collect_map(_, _)
collect_map(m, vec) ==
    IF vec = <<>> THEN m
    ELSE collect_map(map_insert(m, Head(vec)[1], Head(vec)[2]), Tail(vec))

\* vec.into_iter().collect::<IndexSet<T, H>>()
RECURSIVE collect_set(_, _)
collect_set(s, vec) ==
    IF vec = <<>> THEN s ELSE collect_set(set_insert(s, Head(vec)), Tail(vec))

----------------------------------------------------------------------------
(* Sorting: vec.sort_by(|(a, _), (b, _)| a.cmp(b)) and vec.sort(), both    *)
(* stable, under the numeric order of the key type.                        *)

RECURSIVE insert_by_key(_, _)
insert_by_key(s, e) ==
    IF s = <<>> THEN <<e>>
    ELSE IF e[1] < Head(s)[1] THEN <<e>> \o s
    ELSE <<Head(s)>> \o insert_by_key(Tail(s), e)

\* the sort_by left out
sort_by_key_unsorted(vec) == vec

RECURSIVE sort_by_key(_)
sort_by_key(vec) ==
    IF vec = <<>> THEN <<>>
    ELSE insert_by_key(sort_by_key(SubSeq(vec, 1, Len(vec) - 1)), vec[Len(vec)])

RECURSIVE insert_item(_, _)
insert_item(s, e) ==
    IF s = <<>> THEN <<e>>
    ELSE IF e < Head(s) THEN <<e>> \o s
    ELSE <<Head(s)>> \o insert_item(Tail(s), e)

\* the sort left out
sort_unsorted(vec) == vec

RECURSIVE sort(_)
sort(vec) ==
    IF vec = <<>> THEN <<>>
    ELSE insert_item(sort(SubSeq(vec, 1, Len(vec) - 1)), vec[Len(vec)])

----------------------------------------------------------------------------
(* serialize *)

\* the count converted and checked but never written
serialize_count_unwritten(len, w) ==
    LET n == u32_try_from(len)
    IN  IF ~n.ok THEN [ok |-> FALSE, err |-> ErrInvalidData, w |-> w]
        ELSE [ok |-> TRUE, err |-> NoErr, w |-> w]

\* u32::try_from(vec.len()).map_err(|_| ErrorKind::InvalidData)?.serialize(writer)?
serialize_count(len, w) ==
    LET n == u32_try_from(len)
    IN  IF ~n.ok THEN [ok |-> FALSE, err |-> ErrInvalidData, w |-> w]
        ELSE u32_serialize(n.val, w)

\* the value written before its key
RECURSIVE map_write_entries_swapped(_, _, _, _)
map_write_entries_swapped(vec, sk, sv, w) ==
    IF vec = <<>> THEN [ok |-> TRUE, err |-> NoErr, w |-> w]
    ELSE LET v == field_serialize(Head(vec)[2], sv, w)
         IN  IF ~v.ok THEN v
             ELSE LET k == field_serialize(Head(vec)[1], sk, v.w)
                  IN  IF ~k.ok THEN k
                      ELSE map_write_entries_swapped(Tail(vec), sk, sv, k.w)

\* the result of key.serialize(writer) dropped instead of returned with ?
RECURSIVE map_write_entries_key_error_dropped(_, _, _, _)
map_write_entries_key_error_dropped(vec, sk, sv, w) ==
    IF vec = <<>> THEN [ok |-> TRUE, err |-> NoErr, w |-> w]
    ELSE LET k == field_serialize(Head(vec)[1], sk, w)
             v == field_serialize(Head(vec)[2], sv, k.w)
         IN  IF ~v.ok THEN v
             ELSE map_write_entries_key_error_dropped(Tail(vec), sk, sv, v.w)

\* for (key, value) in vec { key.serialize(writer)?; value.serialize(writer)?; }
RECURSIVE map_write_entries(_, _, _, _)
map_write_entries(vec, sk, sv, w) ==
    IF vec = <<>> THEN [ok |-> TRUE, err |-> NoErr, w |-> w]
    ELSE LET k == field_serialize(Head(vec)[1], sk, w)
         IN  IF ~k.ok THEN k
             ELSE LET v == field_serialize(Head(vec)[2], sv, k.w)
                  IN  IF ~v.ok THEN v
                      ELSE map_write_entries(Tail(vec), sk, sv, v.w)

\* for item in vec { item.serialize(writer)?; }
RECURSIVE set_write_items(_, _, _)
set_write_items(vec, st, w) ==
    IF vec = <<>> THEN [ok |-> TRUE, err |-> NoErr, w |-> w]
    ELSE LET t == field_serialize(Head(vec), st, w)
         IN  IF ~t.ok THEN t ELSE set_write_items(Tail(vec), st, t.w)

\* what serialize does before its loop, for a vec of len entries:
\* check_zst::<K>()?; ...; u32::try_from(vec.len())...serialize(writer)?;
serialize_prefix(size, len, w) ==
    LET z == check_zst(size)
    IN  IF ~z.ok THEN [ok |-> FALSE, err |-> z.err, w |-> w]
        ELSE serialize_count(len, w)

\* <IndexMap<K, V, H> as BorshSerialize>::serialize
IndexMap_serialize(m, sk, sv, w) ==
    LET vec == sort_by_key(m)
        c == serialize_prefix(sk, usize_of(Len(vec)), w)
    IN  IF ~c.ok THEN c ELSE map_write_entries(vec, sk, sv, c.w)

\* <IndexSet<T, H> as BorshSerialize>::serialize
IndexSet_serialize(s, st, w) ==
    LET vec == sort(s)
        c == serialize_prefix(st, usize_of(Len(vec)), w)
    IN  IF ~c.ok THEN c ELSE set_write_items(vec, st, c.w)

----------------------------------------------------------------------------
(* deserialize_reader *)

\* for _ in 0..len { result.push(<(K, V)>::deserialize_reader(reader)?); }
RECURSIVE read_pairs(_, _, _, _, _)
read_pairs(n, sk, sv, r, acc) ==
    IF n = 0 THEN [ok |-> TRUE, err |-> NoErr, val |-> acc, r |-> r]
    ELSE LET k == field_deserialize(sk, r)
         IN  IF ~k.ok THEN [ok |-> FALSE, err |-> k.err, val |-> <<>>, r |-> k.r]
             ELSE LET v == field_deserialize(sv, k.r)
                  IN  IF ~v.ok
                      THEN [ok |-> FALSE, err |-> v.err, val |-> <<>>, r |-> v.r]
                      ELSE read_pairs(n - 1, sk, sv, v.r, Append(acc, <<k.val, v.val>>))

\* for _ in 0..len { result.push(T::deserialize_reader(reader)?); }
RECURSIVE read_items(_, _, _, _)
read_items(n, st, r, acc) ==
    IF n = 0 THEN [ok |-> TRUE, err |-> NoErr, val |-> acc, r |-> r]
    ELSE LET t == field_deserialize(st, r)
         IN  IF ~t.ok THEN [ok |-> FALSE, err |-> t.err, val |-> <<>>, r |-> t.r]
             ELSE read_items(n - 1, st, t.r, Append(acc, t.val))

\* <Vec<(K, V)>>::deserialize_reader: the count, then count records.  guard
\* says whether this implementation refuses a zero-size element type itself;
\* borsh.rs fixes neither answer.  After check_zst::<K>() the pair is never of
\* size zero, so the answer matters to the set alone.
Vec_pairs_deserialize_reader(guard, sk, sv, r) ==
    IF guard /\ sk + sv = 0 THEN [ok |-> FALSE, err |-> ErrZst, val |-> <<>>, r |-> r]
    ELSE LET c == field_deserialize(4, r)
         IN  IF ~c.ok THEN [ok |-> FALSE, err |-> c.err, val |-> <<>>, r |-> c.r]
             ELSE read_pairs(c.val, sk, sv, c.r, <<>>)

\* <Vec<T>>::deserialize_reader
Vec_items_deserialize_reader(guard, st, r) ==
    IF guard /\ st = 0 THEN [ok |-> FALSE, err |-> ErrZst, val |-> <<>>, r |-> r]
    ELSE LET c == field_deserialize(4, r)
         IN  IF ~c.ok THEN [ok |-> FALSE, err |-> c.err, val |-> <<>>, r |-> c.r]
             ELSE read_items(c.val, st, c.r, <<>>)

\* the records collected last to first
IndexMap_deserialize_reader_reversed(guard, sk, sv, r) ==
    LET z == check_zst(sk)
    IN  IF ~z.ok THEN [ok |-> FALSE, err |-> z.err, val |-> <<>>, r |-> r]
        ELSE LET vec == Vec_pairs_deserialize_reader(guard, sk, sv, r)
             IN  IF ~vec.ok
                 THEN [ok |-> FALSE, err |-> vec.err, val |-> <<>>, r |-> vec.r]
                 ELSE [ok |-> TRUE, err |-> NoErr,
                       val |-> collect_map(<<>>,
                                   [i \in 1..Len(vec.val) |-> vec.val[Len(vec.val) + 1 - i]]),
                       r |-> vec.r]

\* a record whose key is already present skipped (entry(k).or_insert(v))
IndexMap_deserialize_reader_keep_first(guard, sk, sv, r) ==
    LET z == check_zst(sk)
    IN  IF ~z.ok THEN [ok |-> FALSE, err |-> z.err, val |-> <<>>, r |-> r]
        ELSE LET vec == Vec_pairs_deserialize_reader(guard, sk, sv, r)
                 first == {i \in 1..Len(vec.val) :
                             \A j \in 1..(i - 1) : vec.val[j][1] # vec.val[i][1]}
             IN  IF ~vec.ok
                 THEN [ok |-> FALSE, err |-> vec.err, val |-> <<>>, r |-> vec.r]
                 ELSE [ok |-> TRUE, err |-> NoErr,
                       val |-> collect_map(<<>>,
                                   [i \in 1..Len(vec.val) |->
                                      vec.val[CHOOSE j \in first : vec.val[j][1] = vec.val[i][1]]]),
                       r |-> vec.r]

\* the error of the Vec replaced by an empty map (unwrap_or_default)
IndexMap_deserialize_reader_error_dropped(guard, sk, sv, r) ==
    LET z == check_zst(sk)
    IN  IF ~z.ok THEN [ok |-> FALSE, err |-> z.err, val |-> <<>>, r |-> r]
        ELSE LET vec == Vec_pairs_deserialize_reader(guard, sk, sv, r)
             IN  [ok |-> TRUE, err |-> NoErr,
                  val |-> IF vec.ok THEN collect_map(<<>>, vec.val) ELSE <<>>,
                  r |-> vec.r]

\* <IndexMap<K, V, H> as BorshDeserialize>::deserialize_reader
IndexMap_deserialize_reader(guard, sk, sv, r) ==
    LET z == check_zst(sk)
    IN  IF ~z.ok THEN [ok |-> FALSE, err |-> z.err, val |-> <<>>, r |-> r]
        ELSE LET vec == Vec_pairs_deserialize_reader(guard, sk, sv, r)
             IN  IF ~vec.ok
                 THEN [ok |-> FALSE, err |-> vec.err, val |-> <<>>, r |-> vec.r]
                 ELSE [ok |-> TRUE, err |-> NoErr,
                       val |-> collect_map(<<>>, vec.val), r |-> vec.r]

\* <IndexSet<T, H> as BorshDeserialize>::deserialize_reader: no check_zst here
IndexSet_deserialize_reader(guard, st, r) ==
    LET vec == Vec_items_deserialize_reader(guard, st, r)
    IN  IF ~vec.ok
        THEN [ok |-> FALSE, err |-> vec.err, val |-> <<>>, r |-> vec.r]
        ELSE [ok |-> TRUE, err |-> NoErr,
              val |-> collect_set(<<>>, vec.val), r |-> vec.r]

----------------------------------------------------------------------------
(* Streams handed to deserialize: a count n and the records recs (more,   *)
(* as many or fewer than n), with up to MaxCut bytes missing at the end.   *)

RECURSIVE MapRecords(_, _, _)
MapRecords(recs, sk, sv) ==
    IF recs = <<>> THEN <<>>
    ELSE to_le_bytes(Head(recs)[1], sk) \o to_le_bytes(Head(recs)[2], sv)
         \o MapRecords(Tail(recs), sk, sv)

RECURSIVE SetRecords(_, _)
SetRecords(recs, st) ==
    IF recs = <<>> THEN <<>>
    ELSE to_le_bytes(Head(recs), st) \o SetRecords(Tail(recs), st)

MapWire(n, recs, sk, sv) == to_le_bytes(n, 4) \o MapRecords(recs, sk, sv)
SetWire(n, recs, st) == to_le_bytes(n, 4) \o SetRecords(recs, st)

MaxCut == 7      \* one byte less than the longest record

CutEnd(bytes, d) == SubSeq(bytes, 1, IF d < Len(bytes) THEN Len(bytes) - d ELSE 0)

----------------------------------------------------------------------------
(* The calls.  A scenario starts with one call on inputs of its own     *)
(* (op = "none"); a round trip continues it with the bytes or the          *)
(* container the call before produced.                                     *)

ZeroUsize == usize_of(0)
NoWriter == NewWriter(0, NoErr)
NoReader == NewReader(<<>>)

Init ==
    /\ vecGuard = FALSE
    /\ op = "none"
    /\ szK = 4
    /\ szV = 4
    /\ self = <<>>
    /\ card = ZeroUsize
    /\ writer = NoWriter
    /\ reader = NoReader
    /\ res = Ok
    /\ out = <<>>
    /\ link = FALSE
    /\ bulk = ZeroUsize

\* map.serialize(&mut writer) of a map built by the insertions h
SerializeMap ==
    /\ op = "none"
    /\ \E k \in KeySizes, v \in ValSizes :
      \E h \in BoundedSeq(Keys(k) \X Vals(v), MaxLen), f \in 0..MaxWrites, e \in WriteErrs :
        LET m == collect_map(<<>>, h)
            r == IndexMap_serialize(m, k, v, NewWriter(f, e))
        IN  /\ op' = "map_serialize"
            /\ szK' = k
            /\ szV' = v
            /\ self' = m
            /\ card' = usize_of(Len(m))
            /\ writer' = r.w
            /\ res' = [ok |-> r.ok, err |-> r.err]
            /\ reader' = NoReader
            /\ out' = <<>>
            /\ link' = FALSE
            /\ UNCHANGED <<vecGuard, bulk>>

\* set.serialize(&mut writer) of a set built by the insertions h
SerializeSet ==
    /\ op = "none"
    /\ \E t \in KeySizes :
      \E h \in BoundedSeq(Keys(t), MaxLen), f \in 0..MaxWrites, e \in WriteErrs :
        LET s == collect_set(<<>>, h)
            r == IndexSet_serialize(s, t, NewWriter(f, e))
        IN  /\ op' = "set_serialize"
            /\ szK' = t
            /\ szV' = 0
            /\ self' = s
            /\ card' = usize_of(Len(s))
            /\ writer' = r.w
            /\ res' = [ok |-> r.ok, err |-> r.err]
            /\ reader' = NoReader
            /\ out' = <<>>
            /\ link' = FALSE
            /\ UNCHANGED <<vecGuard, bulk>>

\* IndexMap::<K, V>::deserialize_reader(&mut reader) on a stream of its own
DeserializeMap ==
    /\ op = "none"
    /\ \E k \in KeySizes, v \in ValSizes :
      \E recs \in BoundedSeq(Keys(k) \X Vals(v), MaxRecs) :
        \E n \in 0..Len(recs) + 1, d \in 0..MaxCut :
            LET r == IndexMap_deserialize_reader(vecGuard, k, v,
                         NewReader(CutEnd(MapWire(n, recs, k, v), d)))
            IN  /\ op' = "map_deserialize"
                /\ szK' = k
                /\ szV' = v
                /\ self' = <<>>
                /\ card' = ZeroUsize
                /\ writer' = NoWriter
                /\ reader' = r.r
                /\ res' = [ok |-> r.ok, err |-> r.err]
                /\ out' = r.val
                /\ link' = FALSE
                /\ UNCHANGED <<vecGuard, bulk>>

\* IndexSet::<T>::deserialize_reader(&mut reader) on a stream of its own
DeserializeSet ==
    /\ op = "none"
    /\ \E t \in KeySizes :
      \E recs \in BoundedSeq(Keys(t), MaxRecs) :
        \E n \in 0..Len(recs) + 1, d \in 0..MaxCut, g \in BOOLEAN :
            LET r == IndexSet_deserialize_reader(g, t,
                         NewReader(CutEnd(SetWire(n, recs, t), d)))
            IN  /\ op' = "set_deserialize"
                /\ szK' = t
                /\ szV' = 0
                /\ self' = <<>>
                /\ card' = ZeroUsize
                /\ writer' = NoWriter
                /\ reader' = r.r
                /\ res' = [ok |-> r.ok, err |-> r.err]
                /\ out' = r.val
                /\ link' = FALSE
                /\ vecGuard' = g
                /\ UNCHANGED bulk

\* deserialize_reader on the bytes the last map serialize wrote
DeserializeMapWritten ==
    /\ op = "map_serialize"
    /\ res.ok
    /\ LET r == IndexMap_deserialize_reader(vecGuard, szK, szV, NewReader(writer.buf))
       IN  /\ op' = "map_deserialize"
           /\ reader' = r.r
           /\ res' = [ok |-> r.ok, err |-> r.err]
           /\ out' = r.val
           /\ link' = TRUE
    /\ UNCHANGED <<vecGuard, szK, szV, self, card, writer, bulk>>

\* deserialize_reader on the bytes the last set serialize wrote
DeserializeSetWritten ==
    /\ op = "set_serialize"
    /\ res.ok
    /\ \E g \in BOOLEAN :
         LET r == IndexSet_deserialize_reader(g, szK, NewReader(writer.buf))
         IN  /\ op' = "set_deserialize"
             /\ vecGuard' = g
             /\ reader' = r.r
             /\ res' = [ok |-> r.ok, err |-> r.err]
             /\ out' = r.val
             /\ link' = TRUE
    /\ UNCHANGED <<szK, szV, self, card, writer, bulk>>

\* serialize of the map a round trip returned, into a new writer
ReserializeMap ==
    /\ op = "map_deserialize"
    /\ res.ok
    /\ link
    /\ \E f \in 0..MaxWrites, e \in WriteErrs :
         LET r == IndexMap_serialize(out, szK, szV, NewWriter(f, e))
         IN  /\ op' = "map_reserialize"
             /\ card' = usize_of(Len(out))
             /\ writer' = r.w
             /\ res' = [ok |-> r.ok, err |-> r.err]
    /\ UNCHANGED <<vecGuard, szK, szV, self, reader, out, link, bulk>>

\* serialize of the set a round trip returned, into a new writer
ReserializeSet ==
    /\ op = "set_deserialize"
    /\ res.ok
    /\ link
    /\ \E f \in 0..MaxWrites, e \in WriteErrs :
         LET r == IndexSet_serialize(out, szK, NewWriter(f, e))
         IN  /\ op' = "set_reserialize"
             /\ card' = usize_of(Len(out))
             /\ writer' = r.w
             /\ res' = [ok |-> r.ok, err |-> r.err]
    /\ UNCHANGED <<vecGuard, szK, szV, self, reader, out, link, bulk>>

Next ==
    \/ SerializeMap
    \/ SerializeSet
    \/ DeserializeMap
    \/ DeserializeSet
    \/ DeserializeMapWritten
    \/ DeserializeSetWritten
    \/ ReserializeMap
    \/ ReserializeSet

Spec == Init /\ [][Next]_vars

----------------------------------------------------------------------------
(* Containers of any length.  The entries of such a container are not      *)
(* listed: the call is given vec.len() alone, its keys are of an 8-byte    *)
(* type, and the records its loop writes are counted in bulk, not written  *)
(* out.  The writer fails at the count or not at all.                      *)

Lengths ==
    [1..8 -> {0, 255}]
      \cup {<<1, 0, 0, 0, 0, 0, 0, 0>>, <<2, 0, 0, 0, 0, 0, 0, 0>>,
            <<0, 1, 0, 0, 0, 0, 0, 0>>, <<0, 0, 0, 0, 1, 0, 0, 0>>,
            <<1, 0, 0, 0, 1, 0, 0, 0>>, <<0, 0, 0, 0, 0, 0, 0, 1>>}

CountFailures == {0, 1}

InitCard ==
    /\ vecGuard = FALSE
    /\ op = "none"
    /\ szK = 8
    /\ szV = 4
    /\ self = <<>>
    /\ card = ZeroUsize
    /\ writer = NoWriter
    /\ reader = NoReader
    /\ res = Ok
    /\ out = <<>>
    /\ link = FALSE
    /\ bulk = ZeroUsize

\* map.serialize(&mut writer) of a map of len entries
SerializeMapLarge ==
    /\ op = "none"
    /\ \E len \in Lengths, f \in CountFailures, e \in WriteErrs :
         LET c == serialize_prefix(szK, len, NewWriter(f, e))
         IN  /\ op' = "map_serialize"
             /\ card' = len
             /\ writer' = c.w
             /\ res' = [ok |-> c.ok, err |-> c.err]
             /\ bulk' = IF c.ok THEN len ELSE ZeroUsize
    /\ UNCHANGED <<vecGuard, szK, szV, self, reader, out, link>>

\* set.serialize(&mut writer) of a set of len elements
SerializeSetLarge ==
    /\ op = "none"
    /\ \E len \in Lengths, f \in CountFailures, e \in WriteErrs :
         LET c == serialize_prefix(szK, len, NewWriter(f, e))
         IN  /\ op' = "set_serialize"
             /\ szV' = 0
             /\ card' = len
             /\ writer' = c.w
             /\ res' = [ok |-> c.ok, err |-> c.err]
             /\ bulk' = IF c.ok THEN len ELSE ZeroUsize
    /\ UNCHANGED <<vecGuard, szK, self, reader, out, link>>

NextCard ==
    \/ SerializeMapLarge
    \/ SerializeSetLarge

SpecCard == InitCard /\ [][NextCard]_vars

----------------------------------------------------------------------------
(* Vocabulary of the properties *)

EntrySet(c) == {c[i] : i \in DOMAIN c}

\* every enumeration order of the entries of c
Orders(c) ==
    {p \in [1..Len(c) -> EntrySet(c)] : \A i, j \in 1..Len(c) : p[i] = p[j] => i = j}

MapAscending(m) == \A i, j \in 1..Len(m) : i < j => m[i][1] < m[j][1]
SetAscending(s) == \A i, j \in 1..Len(s) : i < j => s[i] < s[j]

\* a writer that never fails
Sink == NewWriter(0, NoErr)

MapSerializeCall == op \in {"map_serialize", "map_reserialize"}
SetSerializeCall == op \in {"set_serialize", "set_reserialize"}
\* the container the last serialize was handed
Subject == IF op \in {"map_reserialize", "set_reserialize"} THEN out ELSE self
WriterNeverFailed == writer.failAt = 0 \/ writer.failAt > writer.calls

\* the count a stream announces and its i-th map record
StreamCount(bytes) == from_le_bytes(SubSeq(bytes, 1, 4))
RecordSize == szK + szV
StreamKey(bytes, i) ==
    from_le_bytes(SubSeq(bytes, 4 + (i - 1) * RecordSize + 1,
                                4 + (i - 1) * RecordSize + szK))
StreamVal(bytes, i) ==
    from_le_bytes(SubSeq(bytes, 4 + (i - 1) * RecordSize + szK + 1,
                                4 + i * RecordSize))

----------------------------------------------------------------------------
\* C1: two maps (two sets) holding the same entries, whatever the order they
\* were inserted in, serialize to the same bytes.
CanonicalEncoding ==
    /\ (op = "map_serialize" /\ res.ok) =>
         \A p \in Orders(self) :
           LET r == IndexMap_serialize(collect_map(<<>>, p \o p), szK, szV, Sink)
           IN  r.ok /\ r.w.buf = writer.buf
    /\ (op = "set_serialize" /\ res.ok) =>
         \A p \in Orders(self) :
           LET r == IndexSet_serialize(collect_set(<<>>, p \o p), szK, Sink)
           IN  r.ok /\ r.w.buf = writer.buf

CanonicalEncodingWitness ==
    /\ op = "map_serialize"
    /\ res.ok
    /\ Len(self) = 3
    /\ self[1][1] > self[2][1]
    /\ self[2][1] < self[3][1]

\* C2 as stated: the map a round trip returns enumerates its entries in the
\* order the serialized map did.
RoundTripKeepsOrder ==
    (op = "map_deserialize" /\ link) => (res.ok /\ out = self)

\* C2 amended: the map a round trip returns holds the entries of the
\* serialized map, enumerated in ascending key order; it has the order of the
\* serialized map exactly when that map was already in ascending key order.
RoundTripSortsOrder ==
    (op = "map_deserialize" /\ link) =>
        /\ res.ok
        /\ EntrySet(out) = EntrySet(self)
        /\ Len(out) = Len(self)
        /\ MapAscending(out)
        /\ (out = self) <=> MapAscending(self)

RoundTripSortsOrderWitness ==
    /\ op = "map_deserialize"
    /\ link
    /\ res.ok
    /\ Len(self) = 3
    /\ self[1][1] > self[3][1]
    /\ out # self

OverwriteOnDuplicate ==
    (op = "map_deserialize" /\ res.ok) =>
        LET n == StreamCount(reader.buf)
            keys == {StreamKey(reader.buf, i) : i \in 1..n}
        IN  /\ Len(out) = Cardinality(keys)
            /\ {out[j][1] : j \in 1..Len(out)} = keys
            /\ \A i \in 1..n :
                 (\A i2 \in (i + 1)..n : StreamKey(reader.buf, i2) # StreamKey(reader.buf, i))
                 => \E j \in 1..Len(out) :
                      /\ out[j] = <<StreamKey(reader.buf, i), StreamVal(reader.buf, i)>>
                      /\ \A j2 \in 1..Len(out) : out[j2][1] = out[j][1] => j2 = j

OverwriteOnDuplicateWitness ==
    /\ op = "map_deserialize"
    /\ res.ok
    /\ ~link
    /\ szV = 4
    /\ StreamCount(reader.buf) = 3
    /\ StreamKey(reader.buf, 1) = StreamKey(reader.buf, 3)
    /\ StreamKey(reader.buf, 1) # StreamKey(reader.buf, 2)
    /\ StreamVal(reader.buf, 1) # StreamVal(reader.buf, 3)
    /\ Len(out) = 2

\* C6: a round trip returns a container of as many entries as the one
\* serialized; the empty container serializes to the four zero bytes of the
\* count alone, and that stream deserializes to the empty container.
CountFidelity ==
    /\ (op \in {"map_deserialize", "set_deserialize"} /\ link) =>
           (res.ok /\ Len(out) = Len(self))
    /\ (op \in {"map_serialize", "set_serialize"} /\ szK # 0 /\ self = <<>>
          /\ WriterNeverFailed) =>
           (res.ok /\ writer.buf = <<0, 0, 0, 0>>)
    /\ (op \in {"map_deserialize", "set_deserialize"} /\ szK # 0
          /\ reader.buf = <<0, 0, 0, 0>>) =>
           (res.ok /\ out = <<>>)

CountFidelityWitness ==
    /\ op = "map_deserialize"
    /\ link
    /\ Len(self) = 3
    /\ Len(out) = 3
    /\ self[1][1] > self[2][1]

\* C7: a successful serialize writes the count and then one record per
\* entry, in strictly ascending key (element) order, a map's record being
\* the key followed by the value of that key.
WireLayout ==
    /\ (MapSerializeCall /\ res.ok) =>
         \E p \in Orders(Subject) :
           /\ MapAscending(p)
           /\ writer.buf = to_le_bytes(Len(Subject), 4) \o MapRecords(p, szK, szV)
    /\ (SetSerializeCall /\ res.ok) =>
         \E p \in Orders(Subject) :
           /\ SetAscending(p)
           /\ writer.buf = to_le_bytes(Len(Subject), 4) \o SetRecords(p, szK)

WireLayoutWitness ==
    /\ op = "set_serialize"
    /\ res.ok
    /\ self = <<256, 1, 2>>
    /\ writer.buf = <<3, 0, 0, 0, 1, 0, 0, 0, 2, 0, 0, 0, 0, 1, 0, 0>>

\* C8: serializing the container a round trip returned succeeds and writes
\* the bytes the first serialize wrote.
ReencodeIdempotent ==
    (op \in {"map_reserialize", "set_reserialize"} /\ WriterNeverFailed) =>
        (res.ok /\ writer.buf = reader.buf)

ReencodeIdempotentWitness ==
    /\ op = "map_reserialize"
    /\ res.ok
    /\ Len(self) = 3
    /\ self[1][1] > self[2][1]
    /\ out # self

\* C9: a serialize whose writer fails returns the writer's error, makes no
\* write after the failed one, and leaves in the writer the fields written
\* before it.
FailFastEncode ==
    ((MapSerializeCall \/ SetSerializeCall) /\ szK # 0) =>
        /\ res.ok <=> WriterNeverFailed
        /\ ~res.ok =>
             /\ res.err = writer.err
             /\ writer.calls = writer.failAt
             /\ Len(writer.buf) = 4 * (writer.failAt - 1)
             /\ \E p \in Orders(Subject) :
                  LET full == IF MapSerializeCall
                              THEN to_le_bytes(Len(p), 4) \o MapRecords(p, szK, szV)
                              ELSE to_le_bytes(Len(p), 4) \o SetRecords(p, szK)
                  IN  /\ IF MapSerializeCall THEN MapAscending(p) ELSE SetAscending(p)
                      /\ Len(writer.buf) < Len(full)
                      /\ writer.buf = SubSeq(full, 1, Len(writer.buf))

FailFastEncodeWitness ==
    /\ op = "map_serialize"
    /\ ~res.ok
    /\ szV = 4
    /\ Len(self) = 3
    /\ writer.failAt = 4
    /\ Len(writer.buf) = 12

\* C10: a deserialize that succeeds has read the count n and n records and
\* not a byte more; when the stream ends before n records it fails at the
\* first read that finds no whole field, with that read's error, and returns
\* no container.
DecodeReadsCount ==
    (op \in {"map_deserialize", "set_deserialize"} /\ szK # 0) =>
        LET have == Len(reader.buf)
            n == StreamCount(reader.buf)
            fields == IF szV = 0 THEN 1 ELSE 2
        IN  /\ res.ok <=> (have >= 4 /\ have >= 4 + n * RecordSize)
            /\ res.ok =>
                 /\ reader.pos = 4 + n * RecordSize
                 /\ reader.reads = 1 + n * fields
                 /\ EntrySet(out) =
                      IF op = "map_deserialize"
                      THEN {<<StreamKey(reader.buf, i), StreamVal(reader.buf, i)>> :
                              i \in {i1 \in 1..n : \A i2 \in (i1 + 1)..n :
                                       StreamKey(reader.buf, i2) # StreamKey(reader.buf, i1)}}
                      ELSE {StreamKey(reader.buf, i) : i \in 1..n}
            /\ ~res.ok =>
                 /\ res.err = ErrEof
                 /\ out = <<>>
                 /\ reader.reads = have \div 4 + 1

DecodeReadsCountWitness ==
    /\ op = "map_deserialize"
    /\ ~res.ok
    /\ szV = 4
    /\ Len(reader.buf) = 14
    /\ StreamCount(reader.buf) = 2
    /\ reader.reads = 4
    /\ reader.pos = 12

----------------------------------------------------------------------------
\* u32::MAX as a usize
U32Max == <<255, 255, 255, 255, 0, 0, 0, 0>>

\* a <= b for two usizes, compared from the most significant digit down
UsizeLeq(a, b) ==
    \/ a = b
    \/ \E i \in 1..8 : a[i] < b[i] /\ \A j \in (i + 1)..8 : a[j] = b[j]

\* C5: serialize of a container of more than u32::MAX entries fails with
\* InvalidData having written nothing, neither the count nor a record; for a
\* length that fits, the count written is the length.
CardinalityOverflow ==
    (op \in {"map_serialize", "set_serialize"}) =>
        /\ ~UsizeLeq(card, U32Max) =>
             /\ ~res.ok
             /\ res.err.kind = "InvalidData"
             /\ writer.buf = <<>>
             /\ writer.calls = 0
             /\ bulk = ZeroUsize
        /\ (UsizeLeq(card, U32Max) /\ WriterNeverFailed) =>
             /\ res.ok
             /\ writer.buf \o <<0, 0, 0, 0>> = card
             /\ bulk = card

CardinalityOverflowWitness ==
    /\ op = "map_serialize"
    /\ card = <<0, 0, 0, 0, 1, 0, 0, 0>>
    /\ ~res.ok
    /\ writer.failAt = 0

====
